---- MODULE Spec2Model ----
(***************************************************************************)
(* A model of src/utils/csvParser.ts (parseCSV): the tabular importer      *)
(* (line splitting, header resolution, per-row derivation, replication)    *)
(* and the rack allocator (top-down stacking per room).                    *)
(*                                                                         *)
(* Strings are TLA+ strings and are processed character by character, as   *)
(* the code does.  Powers are JavaScript numbers in the code; here they    *)
(* are exact rationals [n, d] (d > 0, lowest terms), NaN being a separate  *)
(* value.  parseInt / parseFloat are modelled for decimal literals with an *)
(* optional sign and (parseFloat) an optional fraction; the inputs drawn   *)
(* in Init contain no hex prefix, exponent or "Infinity".                  *)
(***************************************************************************)
EXTENDS Integers, Sequences, FiniteSets, TLC

VARIABLES csvText, lines, headers, idx, i, lastRoom, racksMap, rowLog,
          r, j, currentU, positionedDevices, result, pc,
          devices, rackSize, unmountedDevices, slots

vars == <<csvText, lines, headers, idx, i, lastRoom, racksMap, rowLog,
          r, j, currentU, positionedDevices, result, pc,
          devices, rackSize, unmountedDevices, slots>>

\* the props and render output of RackVisualizer
view == <<devices, rackSize, unmountedDevices, slots>>

(***************************************************************************)
(* Characters and strings                                                  *)
(***************************************************************************)
Char(s, p) == SubSeq(s, p, p)

WhiteSpace == {" ", "\t", "\n", "\r"}

IsDigit(c) == c \in {"0", "1", "2", "3", "4", "5", "6", "7", "8", "9"}

DigitVal(c) ==
    CASE c = "0" -> 0 [] c = "1" -> 1 [] c = "2" -> 2 [] c = "3" -> 3
      [] c = "4" -> 4 [] c = "5" -> 5 [] c = "6" -> 6 [] c = "7" -> 7
      [] c = "8" -> 8 [] c = "9" -> 9

LowerChar(c) ==
    CASE c = "A" -> "a" [] c = "B" -> "b" [] c = "C" -> "c" [] c = "D" -> "d"
      [] c = "E" -> "e" [] c = "F" -> "f" [] c = "G" -> "g" [] c = "H" -> "h"
      [] c = "I" -> "i" [] c = "J" -> "j" [] c = "K" -> "k" [] c = "L" -> "l"
      [] c = "M" -> "m" [] c = "N" -> "n" [] c = "O" -> "o" [] c = "P" -> "p"
      [] c = "Q" -> "q" [] c = "R" -> "r" [] c = "S" -> "s" [] c = "T" -> "t"
      [] c = "U" -> "u" [] c = "V" -> "v" [] c = "W" -> "w" [] c = "X" -> "x"
      [] c = "Y" -> "y" [] c = "Z" -> "z"
      [] OTHER -> c

\* The character loops below run over positions lo..hi of a string; the
\* range is halved at each call so that the evaluation depth stays
\* logarithmic, the characters still being visited left to right (the state
\* after the left half is bound before the right half is entered).
RECURSIVE LowerRange(_, _, _)
LowerRange(s, lo, hi) ==
    IF lo > hi THEN ""
    ELSE IF lo = hi THEN LowerChar(Char(s, lo))
    ELSE LET mid == (lo + hi) \div 2
         IN  LowerRange(s, lo, mid) \o LowerRange(s, mid + 1, hi)

toLowerCase(s) == LowerRange(s, 1, Len(s))

\* trim() strips one whitespace character at a time from either end
RECURSIVE TrimStart(_)
TrimStart(s) ==
    IF s = "" THEN ""
    ELSE IF Char(s, 1) \in WhiteSpace THEN TrimStart(Tail(s)) ELSE s

RECURSIVE TrimEnd(_)
TrimEnd(s) ==
    IF s = "" THEN ""
    ELSE IF Char(s, Len(s)) \in WhiteSpace
         THEN TrimEnd(SubSeq(s, 1, Len(s) - 1)) ELSE s

NoTrim(s) == s

trim(s) == TrimEnd(TrimStart(s))

\* String.prototype.split('\n'): the pieces of s from position start on
RECURSIVE SplitFrom(_, _)
SplitFrom(s, start) ==
    IF \E p \in start..Len(s) : Char(s, p) = "\n"
    THEN LET nl == CHOOSE p \in start..Len(s) :
                      /\ Char(s, p) = "\n"
                      /\ \A q \in start..(p - 1) : Char(s, q) # "\n"
         IN  <<SubSeq(s, start, nl - 1)>> \o SplitFrom(s, nl + 1)
    ELSE <<SubSeq(s, start, Len(s))>>

split(s) == SplitFrom(s, 1)

\* h.includes(k)
includes(h, k) ==
    \E p \in 1..(Len(h) - Len(k) + 1) : SubSeq(h, p, p + Len(k) - 1) = k

\* s.replace(/^"|"$/g, '')
stripQuotes(s) ==
    LET a == IF s # "" /\ Char(s, 1) = "\"" THEN Tail(s) ELSE s
    IN  IF a # "" /\ Char(a, Len(a)) = "\"" THEN SubSeq(a, 1, Len(a) - 1) ELSE a

\* s.replace(/\s+/g, '-')
DashChar(s, p) ==
    IF Char(s, p) \notin WhiteSpace THEN Char(s, p)
    ELSE IF p > 1 /\ Char(s, p - 1) \in WhiteSpace THEN "" ELSE "-"

RECURSIVE DashRange(_, _, _)
DashRange(s, lo, hi) ==
    IF lo > hi THEN ""
    ELSE IF lo = hi THEN DashChar(s, lo)
    ELSE LET mid == (lo + hi) \div 2
         IN  DashRange(s, lo, mid) \o DashRange(s, mid + 1, hi)

dashWhitespace(s) == DashRange(s, 1, Len(s))

(***************************************************************************)
(* parseLine: the quote-aware field splitter                               *)
(***************************************************************************)
\* the body of the for loop: st = [cell, inQuotes, result]
ParseLineStep(st, char) ==
    IF char = "\"" THEN [st EXCEPT !.inQuotes = ~st.inQuotes]
    ELSE IF char = "," /\ ~st.inQuotes
         THEN [st EXCEPT !.result = Append(st.result, trim(st.cell)), !.cell = ""]
         ELSE [st EXCEPT !.cell = st.cell \o char]

RECURSIVE ParseLineRange(_, _, _, _)
ParseLineRange(text, lo, hi, st) ==
    IF lo > hi THEN st
    ELSE IF lo = hi THEN ParseLineStep(st, Char(text, lo))
    ELSE LET mid == (lo + hi) \div 2
         IN  CHOOSE out \in {ParseLineRange(text, mid + 1, hi, left) :
                                 left \in {ParseLineRange(text, lo, mid, st)}} : TRUE

parseLine(text) ==
    LET st == ParseLineRange(text, 1, Len(text),
                             [cell |-> "", inQuotes |-> FALSE, result |-> <<>>])
    IN  Append(st.result, trim(st.cell))

(***************************************************************************)
(* Numbers: parseInt, parseFloat, rationals                                *)
(***************************************************************************)
NaN == [nan |-> TRUE, n |-> 0, d |-> 1]

RECURSIVE GCD(_, _)
GCD(a, b) == IF b = 0 THEN a ELSE GCD(b, a % b)

Abs(a) == IF a < 0 THEN -a ELSE a

\* the rational n/d (d # 0) in lowest terms with a positive denominator
Rat(n, d) ==
    LET g == GCD(Abs(n), Abs(d))
        s == IF d < 0 THEN -1 ELSE 1
    IN  [nan |-> FALSE, n |-> s * (n \div g), d |-> s * (d \div g)]

Zero == Rat(0, 1)

isNaN(x) == x.nan

RatGT0(x) == x.n > 0

RatAdd(x, y) == Rat(x.n * y.d + y.n * x.d, x.d * y.d)

RatMul(x, y) == Rat(x.n * y.n, x.d * y.d)

RatDivInt(x, q) == Rat(x.n, x.d * q)

RatMulInt(x, q) == Rat(x.n * q, x.d)

\* longest prefix of decimal digits of s starting at p: <<value, count>>
RECURSIVE DigitsFrom(_, _, _, _)
DigitsFrom(s, p, val, cnt) ==
    IF p <= Len(s) /\ IsDigit(Char(s, p))
    THEN DigitsFrom(s, p + 1, val * 10 + DigitVal(Char(s, p)), cnt + 1)
    ELSE <<val, cnt>>

RECURSIVE Pow10(_)
Pow10(e) == IF e = 0 THEN 1 ELSE 10 * Pow10(e - 1)

SignLen(s) == IF s # "" /\ Char(s, 1) \in {"+", "-"} THEN 1 ELSE 0

SignOf(s) == IF s # "" /\ Char(s, 1) = "-" THEN -1 ELSE 1

\* parseInt(s) for a defined string s
parseInt(s) ==
    LET t  == TrimStart(s)
        dg == DigitsFrom(t, SignLen(t) + 1, 0, 0)
    IN  IF dg[2] = 0 THEN NaN ELSE Rat(SignOf(t) * dg[1], 1)

\* parseFloat(s) for a defined string s
parseFloat(s) ==
    LET t    == TrimStart(s)
        ip   == DigitsFrom(t, SignLen(t) + 1, 0, 0)
        dot  == SignLen(t) + ip[2] + 1
        fp   == IF dot <= Len(t) /\ Char(t, dot) = "."
                THEN DigitsFrom(t, dot + 1, 0, 0) ELSE <<0, 0>>
    IN  IF ip[2] = 0 /\ fp[2] = 0 THEN NaN
        ELSE Rat(SignOf(t) * (ip[1] * Pow10(fp[2]) + fp[1]), Pow10(fp[2]))

(***************************************************************************)
(* Header resolution                                                       *)
(***************************************************************************)
KwRoom == <<"Room", "Location", "Rack Name">>

KwDevice == <<"Device", "Model", "Equipment">>

KwRackU == <<"Rack Size", "Size (U)", "U Height", "Height">>

KwQty == <<"Total No. of Device", "Quantity", "Qty", "Count", "No. of Devices">>

KwPSCount == <<"Total No. of PS", "PSU Count", "Power Supplies">>

KwMaxPowerPerDevice == <<"Max Power (Watt)", "Max Power", "Power (W)">>

KwTypicalPower == <<"Typical Power", "Typical Load">>

KwTotalMaxPower == <<"Total Max Power Consumption", "Total Power">>

KwConnType == <<"Connection Type", "Plug Type", "Socket">>

KwPSURating == <<"PSU Rating", "PSU W", "Power Supply Rating">>

parseHeaders(line) ==
    LET cells == parseLine(line)
    IN  [c \in 1..Len(cells) |-> trim(stripQuotes(cells[c]))]

\* keywords.some(k => lh.includes(k.toLowerCase())), lh = h.toLowerCase()
HeaderMatches(lh, lkeywords) ==
    \E q \in 1..Len(lkeywords) : includes(lh, lkeywords[q])

RECURSIVE FindIndexFrom(_, _, _)
FindIndexFrom(lhs, lkeywords, c) ==
    IF c > Len(lhs) THEN -1
    ELSE IF HeaderMatches(lhs[c], lkeywords) THEN c - 1
    ELSE FindIndexFrom(lhs, lkeywords, c + 1)

RECURSIVE lowerAll(_)
lowerAll(strs) ==
    IF strs = <<>> THEN <<>>
    ELSE <<toLowerCase(Head(strs))>> \o lowerAll(Tail(strs))

\* headers.findIndex(...): 0-based index of the first match, -1 if none
getColIndex(hs, keywords) ==
    CHOOSE c \in {FindIndexFrom(lowerAll(hs), lowerAll(keywords), 1)} : TRUE

resolveColumns(hs) ==
    [Room              |-> getColIndex(hs, KwRoom),
     Device            |-> getColIndex(hs, KwDevice),
     RackU             |-> getColIndex(hs, KwRackU),
     Qty               |-> getColIndex(hs, KwQty),
     PSCount           |-> getColIndex(hs, KwPSCount),
     MaxPowerPerDevice |-> getColIndex(hs, KwMaxPowerPerDevice),
     TypicalPower      |-> getColIndex(hs, KwTypicalPower),
     TotalMaxPower     |-> getColIndex(hs, KwTotalMaxPower),
     ConnType          |-> getColIndex(hs, KwConnType),
     PSURating         |-> getColIndex(hs, KwPSURating)]

NoColumns ==
    [Room |-> -1, Device |-> -1, RackU |-> -1, Qty |-> -1, PSCount |-> -1,
     MaxPowerPerDevice |-> -1, TypicalPower |-> -1, TotalMaxPower |-> -1,
     ConnType |-> -1, PSURating |-> -1]

(***************************************************************************)
(* Per-row derivation (the body of the row loop)                           *)
(***************************************************************************)
DefaultRoom == "Default Room"

UnknownDevice == "Unknown Device"

DefaultConnType == "C13"

Null == <<>>

\* row[c] is defined (c is a 0-based column index, c # -1)
HasCell(row, c) == c >= 0 /\ c < Len(row)

\* parseInt(row[c]) / parseFloat(row[c]); an undefined cell parses to NaN
parseIntCell(row, c) == IF HasCell(row, c) THEN parseInt(row[c + 1]) ELSE NaN

parseFloatCell(row, c) == IF HasCell(row, c) THEN parseFloat(row[c + 1]) ELSE NaN

\* row.length < headers.length * 0.5 && row.length < 2
skipRow(row, hs) == 2 * Len(row) < Len(hs) /\ Len(row) < 2

\* the cleaned room cell, "" when the cell is undefined or empty
roomCell(row, cols) ==
    IF HasCell(row, cols.Room) THEN trim(stripQuotes(row[cols.Room + 1])) ELSE ""

rowRoom(row, cols, last) ==
    IF cols.Room # -1
    THEN IF Len(roomCell(row, cols)) > 0 THEN roomCell(row, cols) ELSE last
    ELSE DefaultRoom

keepLastRoom(row, cols, last) == last

nextLastRoom(row, cols, last) ==
    IF cols.Room # -1 /\ Len(roomCell(row, cols)) > 0
    THEN roomCell(row, cols) ELSE last

\* row[c]?.replace(/^"|"$/g, '') || dflt
cellOrDefault(row, c, dflt) ==
    IF c # -1 /\ HasCell(row, c) /\ stripQuotes(row[c + 1]) # ""
    THEN stripQuotes(row[c + 1]) ELSE dflt

\* a positive integer parsed from column c, otherwise dflt
positiveIntOr(row, c, dflt) ==
    IF c # -1
    THEN LET parsed == parseIntCell(row, c)
         IN  IF ~isNaN(parsed) /\ parsed.n > 0 THEN parsed.n ELSE dflt
    ELSE dflt

rowQty(row, cols) == positiveIntOr(row, cols.Qty, 1)

psPerDeviceNoClamp(row, cols) ==
    LET qty == rowQty(row, cols)
    IN  positiveIntOr(row, cols.PSCount, qty) \div qty

psPerDevice(row, cols) ==
    LET qty == rowQty(row, cols)
        psCountTotal == positiveIntOr(row, cols.PSCount, qty)
        fl == psCountTotal \div qty
    IN  IF fl > 1 THEN fl ELSE 1

rowHeight(row, cols) == positiveIntOr(row, cols.RackU, 1)

rowMaxPower(row, cols) ==
    LET rawMax    == IF cols.MaxPowerPerDevice # -1
                     THEN parseFloatCell(row, cols.MaxPowerPerDevice) ELSE NaN
        rawTotal  == IF cols.TotalMaxPower # -1
                     THEN parseFloatCell(row, cols.TotalMaxPower) ELSE NaN
        rawRating == IF cols.PSURating # -1
                     THEN parseFloatCell(row, cols.PSURating) ELSE NaN
    IN  IF ~isNaN(rawMax) /\ RatGT0(rawMax) THEN rawMax
        ELSE IF ~isNaN(rawTotal) /\ RatGT0(rawTotal)
             THEN RatDivInt(rawTotal, rowQty(row, cols))
        ELSE IF ~isNaN(rawRating)
             THEN RatMulInt(rawRating, psPerDevice(row, cols))
        ELSE Zero

rowTypicalHalf(row, cols) ==
    LET typicalPower == IF cols.TypicalPower # -1
                        THEN parseFloatCell(row, cols.TypicalPower) ELSE NaN
    IN  IF isNaN(typicalPower) THEN RatMul(rowMaxPower(row, cols), Rat(5, 10))
        ELSE typicalPower

rowTypicalPower(row, cols) ==
    LET typicalPower == IF cols.TypicalPower # -1
                        THEN parseFloatCell(row, cols.TypicalPower) ELSE NaN
    IN  IF isNaN(typicalPower) THEN RatMul(rowMaxPower(row, cols), Rat(6, 10))
        ELSE typicalPower

deviceIdNoReplica(room, deviceName, rowIdx, k) ==
    dashWhitespace(room \o "-" \o deviceName \o "-" \o ToString(rowIdx))

deviceId(room, deviceName, rowIdx, k) ==
    dashWhitespace(room \o "-" \o deviceName \o "-" \o ToString(rowIdx)
                   \o "-" \o ToString(k))

\* the replica indices of the loop  for (k = 0; k < qty; k++)
replicaCount(qty) == qty

\* the records one processed row appends, in replica order
rowDevices(row, cols, room, rowIdx) ==
    LET deviceName == cellOrDefault(row, cols.Device, UnknownDevice)
    IN  [kk \in 1..replicaCount(rowQty(row, cols)) |->
            [id                   |-> deviceId(room, deviceName, rowIdx, kk - 1),
             name                 |-> deviceName,
             room                 |-> room,
             psuCount             |-> psPerDevice(row, cols),
             typicalPower         |-> rowTypicalPower(row, cols),
             powerRatingPerDevice |-> rowMaxPower(row, cols),
             connectionType       |-> cellOrDefault(row, cols.ConnType, DefaultConnType),
             uHeight              |-> rowHeight(row, cols),
             uPosition            |-> Null,
             psuConnections       |-> <<>>]]

hasRoomNever(map, room) == FALSE

\* racksMap is a Map iterated in insertion order: a sequence of entries
hasRoom(map, room) == \E e \in 1..Len(map) : map[e].roomId = room

pushDevicesFront(map, room, devs) ==
    IF hasRoom(map, room)
    THEN [e \in 1..Len(map) |->
            IF map[e].roomId = room
            THEN [map[e] EXCEPT !.devices = devs \o @] ELSE map[e]]
    ELSE Append(map, [roomId |-> room, devices |-> devs])

\* if (!racksMap.has(room)) racksMap.set(room, []); racksMap.get(room).push(..)
pushDevices(map, room, devs) ==
    IF hasRoom(map, room)
    THEN [e \in 1..Len(map) |->
            IF map[e].roomId = room
            THEN [map[e] EXCEPT !.devices = @ \o devs] ELSE map[e]]
    ELSE Append(map, [roomId |-> room, devices |-> devs])

(***************************************************************************)
(* Rack allocator (the body of racksMap.forEach)                           *)
(***************************************************************************)
RackCapacity == 48

fitsStrict(cur, d) == cur - d.uHeight >= 1

fitsBelowOne(cur, d) == cur - d.uHeight + 1 >= 0

\* if (currentU - d.uHeight + 1 >= 1)
fits(cur, d) == cur - d.uHeight + 1 >= 1

advanceByOne(cur, d) == cur - 1

advanceWithGap(cur, d) == cur - d.uHeight - 1

\* currentU -= d.uHeight
advance(cur, d) == cur - d.uHeight

placedOneBased(d, pos) ==
    [d EXCEPT !.uPosition = <<pos>>,
              !.psuConnections = [p \in 1..d.psuCount |-> Null]]

\* { ...d, uPosition: pos, psuConnections: conns }
placed(d, pos) ==
    [d EXCEPT !.uPosition = <<pos>>,
              !.psuConnections = [p \in 0..(d.psuCount - 1) |-> Null]]

\* { ...d, uPosition: null, psuConnections: {} }
unplaced(d) == [d EXCEPT !.uPosition = Null, !.psuConnections = <<>>]

\* positionedDevices.reduce((sum, d) => sum + d.powerRatingPerDevice, 0)
RECURSIVE reducePower(_, _, _)
reducePower(devs, p, sum) ==
    IF p > Len(devs) THEN sum
    ELSE reducePower(devs, p + 1, RatAdd(sum, devs[p].powerRatingPerDevice))

placedPowerOf(devs) ==
    reducePower(SelectSeq(devs, LAMBDA d : d.uPosition # <<>>), 1, Zero)

totalPowerOf(devs) == reducePower(devs, 1, Zero)

(***************************************************************************)
(* RackVisualizer: unmounted list, occupation map and rack slots           *)
(***************************************************************************)
\* devices.filter(d => d.uPosition === null)
filterUnmounted(devs) == SelectSeq(devs, LAMBDA d : d.uPosition = Null)

\* if (d.uPosition): null and 0 are falsy
hasPosition(d) == d.uPosition # Null /\ d.uPosition[1] # 0

\* the units  d.uPosition - i,  0 <= i < d.uHeight
occupiedUnits(d) == {d.uPosition[1] - k : k \in 0..(d.uHeight - 1)}

\* occupationMap after devices.forEach: a later device overwrites a unit
occupationMap(devs) ==
    LET M == {n \in 1..Len(devs) : hasPosition(devs[n])}
    IN  [u \in UNION {occupiedUnits(devs[n]) : n \in M} |->
            devs[CHOOSE n \in M : /\ u \in occupiedUnits(devs[n])
                                  /\ \A m \in M : u \in occupiedUnits(devs[m])
                                                    => m <= n]]

\* the slots renderRack pushes for the units u, u-1, .., 1: a device slot at
\* the device's uPosition (the loop then jumps below the device), an empty
\* slot for a unit no device occupies, nothing otherwise
RECURSIVE renderRack(_, _)
renderRack(occ, u) ==
    IF u < 1 THEN <<>>
    ELSE IF u \in DOMAIN occ /\ occ[u].uPosition = <<u>>
         THEN <<[u |-> u, device |-> <<occ[u].id>>]>>
              \o renderRack(occ, u - occ[u].uHeight)
         ELSE IF u \notin DOMAIN occ
              THEN <<[u |-> u, device |-> <<>>]>> \o renderRack(occ, u - 1)
              ELSE renderRack(occ, u - 1)

(***************************************************************************)
(* Inputs                                                                  *)
(***************************************************************************)
MaxRows == 3

\* rack sizes the visualizer is given
RackSizes == {42, 48}

HeaderLines ==
    { "Room,Device,Qty,U Height,Total No. of PS,Max Power (Watt),Total Max Power Consumption,PSU Rating,Typical Power",
      "Room,Device,Qty,U Height,Total No. of PS,Total Max Power Consumption,Max Power (Watt),PSU Rating,Typical Power",
      "\"LOCATION\", Model ,Count,Total Max Power Consumption",
      "Device,Qty",
      "Device" }

DataLines ==
    { "R1,web srv,3,20,2,400,1200,,",
      ",sw,2,8,,,300,,",
      "R2,big,1,49,2,,,-100,-5",
      "Room A,\"pdu, b\",2,8,5,,,250,",
      ",x",
      "R2",
      "" }

RECURSIVE SeqsUpTo(_, _)
SeqsUpTo(S, n) ==
    IF n = 0 THEN {<<>>}
    ELSE LET shorter == SeqsUpTo(S, n - 1)
         IN  shorter \cup {Append(q, x) : q \in shorter, x \in S}

RECURSIVE joinLines(_)
joinLines(ls) ==
    IF Len(ls) = 0 THEN ""
    ELSE IF Len(ls) = 1 THEN ls[1]
    ELSE ls[1] \o "\n" \o joinLines(Tail(ls))

Texts ==
    {""} \cup {joinLines(<<h>> \o rows) :
                   h \in HeaderLines, rows \in SeqsUpTo(DataLines, MaxRows)}

(***************************************************************************)
(* State machine                                                           *)
(***************************************************************************)
Init ==
    /\ csvText \in Texts
    /\ lines = <<>>
    /\ headers = <<>>
    /\ idx = NoColumns
    /\ i = 0
    /\ lastRoom = DefaultRoom
    /\ racksMap = <<>>
    /\ rowLog = <<>>
    /\ r = 0
    /\ j = 0
    /\ currentU = 0
    /\ positionedDevices = <<>>
    /\ result = <<>>
    /\ pc = "start"
    /\ devices = <<>>
    /\ rackSize = 0
    /\ unmountedDevices = <<>>
    /\ slots = <<>>

\* lines 5-6: fewer than two lines, return []
ReturnEmpty ==
    /\ pc = "start"
    /\ lines' = split(trim(csvText))
    /\ Len(lines') < 2
    /\ result' = <<>>
    /\ pc' = "done"
    /\ UNCHANGED <<view, csvText, headers, idx, i, lastRoom, racksMap, rowLog,
                   r, j, currentU, positionedDevices>>

\* lines 5-43: split, parse the header row, resolve the columns
ResolveColumns ==
    /\ pc = "start"
    /\ lines' = split(trim(csvText))
    /\ Len(lines') >= 2
    /\ headers' = parseHeaders(lines'[1])
    /\ idx' = resolveColumns(headers')
    /\ lastRoom' = DefaultRoom
    /\ racksMap' = <<>>
    /\ i' = 1
    /\ pc' = "rows"
    /\ UNCHANGED <<view, csvText, rowLog, r, j, currentU, positionedDevices, result>>

\* line 47: the row is skipped (continue)
SkipRow ==
    /\ pc = "rows"
    /\ i < Len(lines)
    /\ skipRow(parseLine(lines[i + 1]), headers)
    /\ rowLog' = Append(rowLog, [row |-> i, skipped |-> TRUE, devices |-> <<>>])
    /\ i' = i + 1
    /\ UNCHANGED <<view, csvText, lines, headers, idx, lastRoom, racksMap,
                   r, j, currentU, positionedDevices, result, pc>>

\* lines 46-120: one processed row, its replicas appended to the room
ProcessRow ==
    /\ pc = "rows"
    /\ i < Len(lines)
    /\ LET row  == parseLine(lines[i + 1])
           room == rowRoom(row, idx, lastRoom)
           devs == rowDevices(row, idx, room, i)
       IN  /\ ~skipRow(row, headers)
           /\ lastRoom' = nextLastRoom(row, idx, lastRoom)
           /\ racksMap' = pushDevices(racksMap, room, devs)
           /\ rowLog' = Append(rowLog, [row |-> i, skipped |-> FALSE, devices |-> devs])
    /\ i' = i + 1
    /\ UNCHANGED <<view, csvText, lines, headers, idx,
                   r, j, currentU, positionedDevices, result, pc>>

\* line 123: the row loop is over, result = []
EndRows ==
    /\ pc = "rows"
    /\ i >= Len(lines)
    /\ result' = <<>>
    /\ r' = 1
    /\ pc' = "forEach"
    /\ UNCHANGED <<view, csvText, lines, headers, idx, i, lastRoom, racksMap, rowLog,
                   j, currentU, positionedDevices>>

\* lines 124-128: the callback starts on the next room
BeginRoom ==
    /\ pc = "forEach"
    /\ r <= Len(racksMap)
    /\ currentU' = RackCapacity
    /\ positionedDevices' = <<>>
    /\ j' = 1
    /\ pc' = "map"
    /\ UNCHANGED <<view, csvText, lines, headers, idx, i, lastRoom, racksMap, rowLog,
                   r, result>>

\* lines 133-143: the device fits
PlaceDevice ==
    /\ pc = "map"
    /\ j <= Len(racksMap[r].devices)
    /\ LET d == racksMap[r].devices[j]
       IN  /\ fits(currentU, d)
           /\ positionedDevices' = Append(positionedDevices, placed(d, currentU))
           /\ currentU' = advance(currentU, d)
    /\ j' = j + 1
    /\ UNCHANGED <<view, csvText, lines, headers, idx, i, lastRoom, racksMap, rowLog,
                   r, result, pc>>

\* lines 146-147: the device does not fit
LeaveUnplaced ==
    /\ pc = "map"
    /\ j <= Len(racksMap[r].devices)
    /\ LET d == racksMap[r].devices[j]
       IN  /\ ~fits(currentU, d)
           /\ positionedDevices' = Append(positionedDevices, unplaced(d))
    /\ j' = j + 1
    /\ UNCHANGED <<view, csvText, lines, headers, idx, i, lastRoom, racksMap, rowLog,
                   r, currentU, result, pc>>

\* lines 150-151: total power, push the room
FinishRoom ==
    /\ pc = "map"
    /\ j > Len(racksMap[r].devices)
    /\ result' = Append(result, [roomId     |-> racksMap[r].roomId,
                                 devices    |-> positionedDevices,
                                 totalPower |-> totalPowerOf(positionedDevices)])
    /\ r' = r + 1
    /\ pc' = "forEach"
    /\ UNCHANGED <<view, csvText, lines, headers, idx, i, lastRoom, racksMap, rowLog,
                   j, currentU, positionedDevices>>

\* line 154: return result
Return ==
    /\ pc = "forEach"
    /\ r > Len(racksMap)
    /\ pc' = "done"
    /\ UNCHANGED <<view, csvText, lines, headers, idx, i, lastRoom, racksMap, rowLog,
                   r, j, currentU, positionedDevices, result>>

\* RackVisualizer renders one room of the import in a rack of rackSize units
RenderRack ==
    /\ pc = "done"
    /\ \E e \in 1..Len(result), size \in RackSizes :
          \E occ \in {occupationMap(result[e].devices)} :
             /\ devices' = result[e].devices
             /\ rackSize' = size
             /\ unmountedDevices' = filterUnmounted(result[e].devices)
             /\ slots' = renderRack(occ, size)
    /\ pc' = "rendered"
    /\ UNCHANGED <<csvText, lines, headers, idx, i, lastRoom, racksMap, rowLog,
                   r, j, currentU, positionedDevices, result>>

Next ==
    \/ ReturnEmpty
    \/ ResolveColumns
    \/ SkipRow
    \/ ProcessRow
    \/ EndRows
    \/ BeginRoom
    \/ PlaceDevice
    \/ LeaveUnplaced
    \/ FinishRoom
    \/ Return
    \/ RenderRack

Spec == Init /\ [][Next]_vars

(***************************************************************************)
(* Properties                                                              *)
(***************************************************************************)
IsPlaced(d) == d.uPosition # Null

\* the rooms allocated so far: <<imported devices, positioned devices>>,
\* the room being mapped included
AllocatedRooms ==
    {<<racksMap[e].devices, result[e].devices>> : e \in 1..Len(result)}
    \cup (IF pc = "map" THEN {<<racksMap[r].devices, positionedDevices>>} ELSE {})

\* every record produced so far, before and after allocation
ImportedDevices ==
    UNION {{rowLog[e].devices[k] : k \in 1..Len(rowLog[e].devices)} :
               e \in 1..Len(rowLog)}

OutputDevices ==
    UNION {{rm[2][n] : n \in 1..Len(rm[2])} : rm \in AllocatedRooms}

\* total height of the placed devices among the first n of devs
RECURSIVE PlacedHeight(_, _)
PlacedHeight(devs, n) ==
    IF n = 0 THEN 0
    ELSE PlacedHeight(devs, n - 1)
         + (IF IsPlaced(devs[n]) THEN devs[n].uHeight ELSE 0)

\* C1: devices are processed in input order from a cursor starting at the
\* rack capacity: the n-th output device is the n-th imported one, and when
\* it fits (or was placed) its rackPosition is the capacity minus the total
\* height of the devices placed before it.
C1_TopDownInOrder ==
    \A rm \in AllocatedRooms :
        /\ Len(rm[2]) <= Len(rm[1])
        /\ \A n \in 1..Len(rm[2]) :
              LET free == RackCapacity - PlacedHeight(rm[2], n - 1)
              IN  /\ rm[2][n].id = rm[1][n].id
                  /\ rm[2][n].uHeight = rm[1][n].uHeight
                  /\ (IsPlaced(rm[2][n]) \/ rm[2][n].uHeight <= free)
                        => rm[2][n].uPosition = <<free>>

\* a finished room with three placed devices of differing heights
C1_Witness ==
    \E e \in 1..Len(result) :
        \E a, b, c \in 1..Len(result[e].devices) :
            /\ a < b /\ b < c
            /\ IsPlaced(result[e].devices[a])
            /\ IsPlaced(result[e].devices[b])
            /\ IsPlaced(result[e].devices[c])
            /\ result[e].devices[a].uHeight # result[e].devices[c].uHeight
            /\ result[e].devices[c].uPosition[1] < result[e].devices[b].uPosition[1]

\* C2: a device that does not fit at the cursor is left unplaced and the
\* step leaves the cursor unchanged; after such a device, a device of the
\* same room whose height is at most the cursor is placed at the cursor.
C2_UnfitKeepsCursor ==
    [][(pc = "map" /\ j <= Len(racksMap[r].devices)) =>
        LET d == racksMap[r].devices[j]
            out == positionedDevices'[Len(positionedDevices')]
        IN  /\ Len(positionedDevices') = Len(positionedDevices) + 1
            /\ (currentU - d.uHeight + 1 < 1)
                  => (~IsPlaced(out) /\ currentU' = currentU)
            /\ ((\E m \in 1..Len(positionedDevices) : ~IsPlaced(positionedDevices[m]))
                /\ d.uHeight <= currentU)
                  => out.uPosition = <<currentU>>]_vars

\* a room where a placed device follows an unplaced one
C2_Witness ==
    \E rm \in AllocatedRooms :
        \E m, n \in 1..Len(rm[2]) :
            m < n /\ ~IsPlaced(rm[2][m]) /\ IsPlaced(rm[2][n])

\* C3: every placed record lies within the rack:
\* 1 <= rackPosition - heightUnits + 1 and rackPosition <= capacity.
C3_PlacedWithinRack ==
    \A d \in OutputDevices :
        IsPlaced(d) => /\ 1 <= d.uPosition[1] - d.uHeight + 1
                       /\ d.uPosition[1] <= RackCapacity

\* a placed device whose lowest unit is U1, and an unplaced oversized one
C3_Witness ==
    /\ \E d \in OutputDevices : IsPlaced(d) /\ d.uPosition[1] - d.uHeight + 1 = 1
    /\ \E d \in OutputDevices : ~IsPlaced(d) /\ d.uHeight > RackCapacity

\* the sum of the max power of the devices of devs selected by keep
RECURSIVE PowerSum(_, _, _)
PowerSum(devs, n, keep) ==
    IF n = 0 THEN Zero
    ELSE IF IsPlaced(devs[n]) = keep
         THEN RatAdd(PowerSum(devs, n - 1, keep), devs[n].powerRatingPerDevice)
         ELSE PowerSum(devs, n - 1, keep)

\* C4: a room's totalPower is the sum of the max power of all its imported
\* records, the placed and the unplaced ones alike.
C4_TotalPowerAllDevices ==
    \A e \in 1..Len(result) :
        /\ Len(result[e].devices) = Len(racksMap[e].devices)
        /\ result[e].totalPower =
              RatAdd(PowerSum(result[e].devices, Len(result[e].devices), TRUE),
                     PowerSum(result[e].devices, Len(result[e].devices), FALSE))

\* a finished room holding an unplaced device that draws power
C4_Witness ==
    \E e \in 1..Len(result) :
        \E n \in 1..Len(result[e].devices) :
            /\ ~IsPlaced(result[e].devices[n])
            /\ result[e].devices[n].powerRatingPerDevice.n > 0

\* the parsed fields of data line n (n = 1 is the first line after the header)
RowOf(n) == parseLine(lines[n + 1])

DataLineNumbers == 1..(Len(lines) - 1)

ProcessedLineNumbers == {n \in DataLineNumbers : ~skipRow(RowOf(n), headers)}

\* the room cell of the nearest line of cand before line n that has a
\* non-empty room cell, the default label when there is none
FillDownFrom(n, cand) ==
    LET prior == {m \in cand : m < n /\ roomCell(RowOf(m), idx) # ""}
    IN  IF prior = {} THEN DefaultRoom
        ELSE roomCell(RowOf(CHOOSE m \in prior : \A q \in prior : q <= m), idx)

\* the processed rows logged so far whose room cell is empty
EmptyRoomEntries ==
    {e \in 1..Len(rowLog) :
        /\ ~rowLog[e].skipped
        /\ idx.Room # -1
        /\ roomCell(RowOf(rowLog[e].row), idx) = ""}

\* C5 as stated: a processed row with an empty room cell gets the room cell
\* of the nearest preceding data line (skipped lines included) whose room
\* cell is non-empty, or the default label.
C5_FillDownFromAnyLine ==
    \A e \in EmptyRoomEntries :
        \A k \in 1..Len(rowLog[e].devices) :
            rowLog[e].devices[k].room = FillDownFrom(rowLog[e].row, DataLineNumbers)

\* C5 amended: a processed row with an empty room cell gets the room cell
\* of the nearest preceding processed data row whose room cell is
\* non-empty, or the default label when there is none.
C5_FillDownFromProcessedRows ==
    \A e \in EmptyRoomEntries :
        /\ Len(rowLog[e].devices) >= 1
        /\ \A k \in 1..Len(rowLog[e].devices) :
              rowLog[e].devices[k].room
                 = FillDownFrom(rowLog[e].row, ProcessedLineNumbers)

\* an empty-cell row that inherited a named room across a skipped line whose
\* own room cell names another room
C5_Witness ==
    \E e \in EmptyRoomEntries :
        \E m \in DataLineNumbers \ ProcessedLineNumbers :
            /\ m < rowLog[e].row
            /\ roomCell(RowOf(m), idx) # ""
            /\ rowLog[e].devices[1].room # DefaultRoom
            /\ rowLog[e].devices[1].room # roomCell(RowOf(m), idx)

\* the importer-derived fields other than id
SameDerivedFields(a, b) ==
    /\ a.name = b.name
    /\ a.room = b.room
    /\ a.psuCount = b.psuCount
    /\ a.typicalPower = b.typicalPower
    /\ a.powerRatingPerDevice = b.powerRatingPerDevice
    /\ a.connectionType = b.connectionType
    /\ a.uHeight = b.uHeight

\* C6: a processed row with resolved quantity Q produces exactly Q records
\* equal in every derived field, and all ids of the import are pairwise
\* distinct.
C6_Replication ==
    /\ \A e \in 1..Len(rowLog) :
          ~rowLog[e].skipped =>
             /\ Len(rowLog[e].devices) = rowQty(RowOf(rowLog[e].row), idx)
             /\ \A a, b \in 1..Len(rowLog[e].devices) :
                   SameDerivedFields(rowLog[e].devices[a], rowLog[e].devices[b])
    /\ \A e, f \in 1..Len(rowLog) :
          \A a \in 1..Len(rowLog[e].devices), b \in 1..Len(rowLog[f].devices) :
             (e # f \/ a # b) => rowLog[e].devices[a].id # rowLog[f].devices[b].id

\* two rows made from the same source text, one of them replicated
C6_Witness ==
    \E e, f \in 1..Len(rowLog) :
        /\ e # f
        /\ Len(rowLog[e].devices) >= 2
        /\ Len(rowLog[f].devices) >= 1
        /\ lines[rowLog[e].row + 1] = lines[rowLog[f].row + 1]

\* the columns the header row designates, by its own keywords: the total
\* column, and the per-device max column that is not the total column
TotalMaxColumns ==
    {c \in 1..Len(headers) : HeaderMatches(headers[c], KwTotalMaxPower)}

PerDeviceMaxColumns ==
    {c \in 1..Len(headers) : HeaderMatches(headers[c], KwMaxPowerPerDevice)}
    \ TotalMaxColumns

\* C7: when the per-device max-power column and the total-max-power column
\* both hold valid positive numbers, the record's max power is the
\* per-device column's value, whatever the order of the header's columns.
C7_PerDeviceMaxWins ==
    \A e \in 1..Len(rowLog) :
        \A pd \in PerDeviceMaxColumns, tt \in TotalMaxColumns :
            LET row == RowOf(rowLog[e].row)
                vpd == parseFloatCell(row, pd - 1)
                vtt == parseFloatCell(row, tt - 1)
            IN  (/\ ~rowLog[e].skipped
                 /\ ~isNaN(vpd) /\ RatGT0(vpd)
                 /\ ~isNaN(vtt) /\ RatGT0(vtt))
                => \A k \in 1..Len(rowLog[e].devices) :
                      rowLog[e].devices[k].powerRatingPerDevice = vpd

\* every newline of t lies within its leading or its trailing whitespace
FewerThanTwoLines(t) ==
    \A p \in 1..Len(t) :
        Char(t, p) = "\n" =>
            \/ \A q \in 1..(p - 1) : Char(t, q) \in WhiteSpace
            \/ \A q \in (p + 1)..Len(t) : Char(t, q) \in WhiteSpace

\* C8: an input with fewer than two lines after trimming yields an empty
\* room collection.
C8_ShortInputEmpty ==
    (pc = "done" /\ FewerThanTwoLines(csvText)) =>
        (result = <<>> /\ racksMap = <<>> /\ rowLog = <<>>)

\* a header followed only by blank lines has returned the empty collection
C8_Witness ==
    /\ pc = "done"
    /\ FewerThanTwoLines(csvText)
    /\ \E p \in 1..Len(csvText) : Char(csvText, p) = "\n"
    /\ result = <<>>

\* C9: every record's typical power and max power are non-negative.
C9_PowerNonNegative ==
    \A d \in ImportedDevices :
        d.typicalPower.n >= 0 /\ d.powerRatingPerDevice.n >= 0

\* C10: a data line with no content produces no record, for every header
\* width, and every data row with at least two fields is processed.
C10_BlankLinesSkipped ==
    \A e \in 1..Len(rowLog) :
        /\ trim(lines[rowLog[e].row + 1]) = ""
              => (rowLog[e].skipped /\ rowLog[e].devices = <<>>)
        /\ Len(RowOf(rowLog[e].row)) >= 2 => ~rowLog[e].skipped

\* the number of records row entry e produced
Replicas(e) == Len(rowLog[e].devices)

ProcessedEntries == {e \in 1..Len(rowLog) : ~rowLog[e].skipped}

\* C11: the per-unit power-supply count is at least 1; it is
\* floor(totalPS / quantity) when the power-supply-total cell parses to a
\* positive integer that is at least the quantity, and 1 when the cell is
\* absent, unparseable or non-positive.
C11_PsuPerUnit ==
    \A e \in ProcessedEntries :
        LET total == parseIntCell(RowOf(rowLog[e].row), idx.PSCount)
        IN  \A k \in 1..Replicas(e) :
               LET ps == rowLog[e].devices[k].psuCount
               IN  /\ ps >= 1
                   /\ (~isNaN(total) /\ total.n >= Replicas(e))
                         => /\ ps * Replicas(e) <= total.n
                            /\ total.n < (ps + 1) * Replicas(e)
                   /\ (isNaN(total) \/ total.n <= 0) => ps = 1

\* one import holding a row whose total is below its quantity (clamped to 1)
\* and a row whose total is not a multiple of its quantity (floored)
C11_Witness ==
    /\ \E e \in ProcessedEntries :
          LET total == parseIntCell(RowOf(rowLog[e].row), idx.PSCount)
          IN  /\ ~isNaN(total) /\ total.n > 0 /\ total.n < Replicas(e)
              /\ rowLog[e].devices[1].psuCount = 1
    /\ \E e \in ProcessedEntries :
          LET total == parseIntCell(RowOf(rowLog[e].row), idx.PSCount)
          IN  /\ ~isNaN(total) /\ total.n > Replicas(e)
              /\ total.n % Replicas(e) # 0
              /\ rowLog[e].devices[1].psuCount >= 2

\* C12: when the typical-power column is absent or its cell does not parse,
\* typical power is exactly 60% of the row's max power (5 * typical =
\* 3 * max); when the cell parses, typical power is the cell's value.
C12_TypicalSixtyPercent ==
    \A e \in ProcessedEntries :
        LET cell == parseFloatCell(RowOf(rowLog[e].row), idx.TypicalPower)
        IN  \A k \in 1..Replicas(e) :
               LET typ == rowLog[e].devices[k].typicalPower
                   max == rowLog[e].devices[k].powerRatingPerDevice
               IN  /\ ~isNaN(typ) /\ typ.d > 0
                   /\ IF isNaN(cell)
                      THEN 5 * typ.n * max.d = 3 * max.n * typ.d
                      ELSE typ = cell

\* a record with max power 500 and no parseable typical cell has typical 300
C12_Witness ==
    \E e \in ProcessedEntries :
        /\ isNaN(parseFloatCell(RowOf(rowLog[e].row), idx.TypicalPower))
        /\ rowLog[e].devices[1].powerRatingPerDevice = Rat(500, 1)
        /\ rowLog[e].devices[1].typicalPower = Rat(300, 1)

\* the places <<room layout, position>> of the output that hold record id
PlacesOf(id) ==
    {<<e, n>> \in (1..Len(result)) \X (1..Cardinality(ImportedDevices)) :
        n <= Len(result[e].devices) /\ result[e].devices[n].id = id}

\* C14: every output record has heightUnits >= 1, powerSupplyCount >= 1
\* and a non-empty room and lies in the layout of its own room; layouts have
\* pairwise distinct rooms; on return every imported record lies in exactly
\* one layout and there is one layout per distinct room.
C14_OneLayoutPerRoom ==
    /\ \A e \in 1..Len(result) :
          \A n \in 1..Len(result[e].devices) :
             LET d == result[e].devices[n]
             IN  /\ d.uHeight >= 1
                 /\ d.psuCount >= 1
                 /\ d.room # ""
                 /\ d.room = result[e].roomId
    /\ \A e, f \in 1..Len(result) : e # f => result[e].roomId # result[f].roomId
    /\ pc = "done" =>
          /\ \A d \in ImportedDevices : Cardinality(PlacesOf(d.id)) = 1
          /\ {result[e].roomId : e \in 1..Len(result)}
                = {d.room : d \in ImportedDevices}

\* a returned import whose rows alternate between two rooms
C14_Witness ==
    /\ pc = "done"
    /\ Len(result) = 2
    /\ \E e, f, g \in ProcessedEntries :
          /\ e < f /\ f < g
          /\ rowLog[e].devices[1].room = rowLog[g].devices[1].room
          /\ rowLog[e].devices[1].room # rowLog[f].devices[1].room

\* the value of the first column of cols in row, NaN when cols is empty
FirstColumnValue(row, cols) ==
    IF cols = {} THEN NaN
    ELSE parseFloatCell(row, (CHOOSE c \in cols : \A b \in cols : c <= b) - 1)

\* C15: when the per-device max-power value is absent or not > 0 and the
\* total-max-power value is > 0, max power is the total divided by the
\* quantity; otherwise, when the power-supply rating is numeric, it is the
\* rating times the per-unit power-supply count; otherwise it is 0.
C15_PowerFallbackChain ==
    \A e \in ProcessedEntries :
        LET row  == RowOf(rowLog[e].row)
            vpd  == FirstColumnValue(row, PerDeviceMaxColumns)
            vtt  == FirstColumnValue(row, TotalMaxColumns)
            vrat == parseFloatCell(row, idx.PSURating)
        IN  (isNaN(vpd) \/ ~RatGT0(vpd)) =>
               \A k \in 1..Replicas(e) :
                  LET d == rowLog[e].devices[k]
                      mp == d.powerRatingPerDevice
                  IN  IF ~isNaN(vtt) /\ RatGT0(vtt)
                      THEN mp.n * Replicas(e) * vtt.d = vtt.n * mp.d
                      ELSE IF ~isNaN(vrat)
                           THEN mp.n * vrat.d = vrat.n * d.psuCount * mp.d
                           ELSE mp = Zero

\* C16: after allocation every placed record's power-connection mapping has
\* exactly the keys 0..psuCount-1, each mapped to null, and every unplaced
\* record's mapping is empty.
C16_PsuConnections ==
    \A d \in OutputDevices :
        IF IsPlaced(d)
        THEN /\ DOMAIN d.psuConnections = 0..(d.psuCount - 1)
             /\ \A p \in DOMAIN d.psuConnections : d.psuConnections[p] = Null
        ELSE DOMAIN d.psuConnections = {}

\* a placed record with two power supplies next to an unplaced record
C16_Witness ==
    /\ pc = "done"
    /\ \E d \in OutputDevices : IsPlaced(d) /\ d.psuCount >= 2
    /\ \E d \in OutputDevices : ~IsPlaced(d) /\ d.psuCount >= 2

\* a record without its rackPosition and powerConnections
Strip(d) == [d EXCEPT !.uPosition = Null, !.psuConnections = <<>>]

\* the records the first n lines imported for room, in row then replica order
RECURSIVE RoomRecords(_, _)
RoomRecords(room, n) ==
    IF n = 0 THEN <<>>
    ELSE RoomRecords(room, n - 1)
         \o SelectSeq(rowLog[n].devices, LAMBDA d : d.room = room)

\* C17: each room's output device list holds exactly the records imported
\* for that room, in source-row order and then replica order, none dropped,
\* duplicated or reordered, every field other than rackPosition and
\* powerConnections unchanged.
C17_RecordsPreserved ==
    /\ \A e \in 1..Len(result) :
          LET out == result[e].devices
              imp == RoomRecords(result[e].roomId, Len(rowLog))
          IN  /\ Len(out) = Len(imp)
              /\ \A n \in 1..Len(out) : Strip(out[n]) = imp[n]
    /\ pc = "done" =>
          \A d \in ImportedDevices : \E e \in 1..Len(result) : result[e].roomId = d.room

\* a finished import where one room received two source rows with another
\* room's row between them
C17_Witness ==
    /\ pc = "done"
    /\ \E e, f, g \in ProcessedEntries :
          /\ e < f /\ f < g
          /\ rowLog[e].devices[1].room = rowLog[g].devices[1].room
          /\ rowLog[f].devices[1].room # rowLog[e].devices[1].room
          /\ \E x \in 1..Len(result) :
                /\ result[x].roomId = rowLog[e].devices[1].room
                /\ Len(result[x].devices) = Replicas(e) + Replicas(g)

\* the rack units a placed device occupies
UnitsOf(d) == (d.uPosition[1] - d.uHeight + 1)..d.uPosition[1]

\* C18: in every room the unit ranges of the placed devices are pairwise
\* disjoint and their union is exactly the block from
\* capacity - (sum of placed heights) + 1 up to capacity: a skipped device
\* leaves no gap between placed devices.
C18_GapFreeBlock ==
    \A rm \in AllocatedRooms :
        LET devs == rm[2]
            P    == {n \in 1..Len(devs) : IsPlaced(devs[n])}
        IN  /\ \A m, n \in P : m # n => UnitsOf(devs[m]) \cap UnitsOf(devs[n]) = {}
            /\ UNION {UnitsOf(devs[n]) : n \in P}
                 = (RackCapacity - PlacedHeight(devs, Len(devs)) + 1)..RackCapacity

\* a room where a device was skipped between two placed devices
C18_Witness ==
    \E e \in 1..Len(result) :
        LET devs == result[e].devices
        IN  \E l, m, n \in 1..Len(devs) :
               /\ l < m /\ m < n
               /\ IsPlaced(devs[l]) /\ ~IsPlaced(devs[m]) /\ IsPlaced(devs[n])

\* C19: once a whole room is allocated, every record left without a
\* rackPosition is taller than the free units remaining at the bottom of the
\* rack, which is the final cursor value.
C19_NoUnplacedCouldFit ==
    /\ \A e \in 1..Len(result) :
          LET devs == result[e].devices
              free == RackCapacity - PlacedHeight(devs, Len(devs))
          IN  \A n \in 1..Len(devs) : ~IsPlaced(devs[n]) => devs[n].uHeight > free
    /\ (pc \in {"forEach", "done"} /\ Len(result) >= 1) =>
          LET devs == result[Len(result)].devices
          IN  /\ currentU = RackCapacity - PlacedHeight(devs, Len(devs))
              /\ \A n \in 1..Len(devs) :
                    ~IsPlaced(devs[n]) => devs[n].uHeight > currentU

\* a finished room with free units left and an unplaced device that would
\* fit an empty rack
C19_Witness ==
    \E e \in 1..Len(result) :
        LET devs == result[e].devices
        IN  /\ PlacedHeight(devs, Len(devs)) < RackCapacity
            /\ \E n \in 1..Len(devs) :
                  ~IsPlaced(devs[n]) /\ devs[n].uHeight <= RackCapacity

\* C20: for any rackSize and any device list the allocator produced, every
\* device is displayed exactly once: as a rack slot at its rackPosition when
\* it is placed, in the unmounted list when its rackPosition is null.
C20_EveryDeviceDisplayedOnce ==
    pc = "rendered" =>
        \A n \in 1..Len(devices) :
            LET d     == devices[n]
                inRack == {s \in 1..Len(slots) : slots[s].device = <<d.id>>}
                inList == {s \in 1..Len(unmountedDevices) :
                              unmountedDevices[s].id = d.id}
            IN  IF IsPlaced(d)
                THEN /\ Cardinality(inRack) = 1
                     /\ \A s \in inRack : slots[s].u = d.uPosition[1]
                     /\ inList = {}
                ELSE Cardinality(inList) = 1 /\ inRack = {}

====
